---- MODULE Spec2Model ----
(***************************************************************************)
(* Model of convert_to_pdf.py: one coroutine, convert_notebook_to_pdf,     *)
(* driven to completion by run_until_complete.  Every `await` is two       *)
(* steps, the call being issued and its result (or exception) coming back. *)
(* The browser library and the filesystem are the environment.             *)
(***************************************************************************)
EXTENDS Integers, Sequences, FiniteSets, TLC

VARIABLES ip, phase, inflight, browser, page, file_url, fs, callLog, done,
          failed, error, exitCode, launches, closes, pdfRequests, pdfWritten,
          cwdOk, netIdle, run, prev, outAtStart

vars == <<ip, phase, inflight, browser, page, file_url, fs, callLog, done,
          failed, error, exitCode, launches, closes, pdfRequests, pdfWritten,
          cwdOk, netIdle, run, prev, outAtStart>>

\* Number of consecutive process runs explored.
MaxRuns == 2

----------------------------------------------------------------------------
\* The program text

\* Statement order of the coroutine body (lines 6, 7, 10-11, 12, 14-24, 26).
Program_ResolveFirst == <<"abspath", "launch", "newPage", "goto", "pdf", "close">>

Program_PdfBeforeGoto == <<"launch", "newPage", "abspath", "pdf", "goto", "close">>

Program == <<"launch", "newPage", "abspath", "goto", "pdf", "close">>

\* The options dict passed to page.pdf.
PdfOptions_Letter ==
    [path |-> "notebook.pdf", format |-> "Letter", printBackground |-> TRUE,
     margin |-> [top |-> "1cm", right |-> "1cm", bottom |-> "1cm", left |-> "1cm"]]

PdfOptions ==
    [path |-> "notebook.pdf", format |-> "A4", printBackground |-> TRUE,
     margin |-> [top |-> "1cm", right |-> "1cm", bottom |-> "1cm", left |-> "1cm"]]

\* The options dict passed to page.goto; no 'timeout' key is given, so the
\* library's default navigation timeout applies.
GotoOptions_NoTimeout == [waitUntil |-> "networkidle0", timeout |-> "disabled"]

GotoOptions == [waitUntil |-> "networkidle0", timeout |-> "default"]

\* The file name given to os.path.abspath.
InputName == "levenshtein.html"

----------------------------------------------------------------------------
\* Paths, URLs and the filesystem

\* The working directory of the process, as path components.
Cwd == <<"work">>

\* os.path.abspath(name) and open(name): a relative name is joined to the cwd.
Abspath(cwd, name) == cwd \o <<name>>

\* f'file://{html_path}'
FileUrl(html_path) == <<"file://">> \o html_path

\* The browser maps a file:// URL back to a filesystem path.
UrlPath(url) == IF Len(url) > 0 /\ Head(url) = "file://" THEN Tail(url) ELSE <<>>

InputPath == Abspath(Cwd, InputName)

OutputPath == Abspath(Cwd, PdfOptions.path)

NoFile == "<absent>"

NoUrl == <<>>

\* A filesystem is a function from the paths that exist to their content.
ReadFile(f, p) == IF p \in DOMAIN f THEN f[p] ELSE NoFile

WriteFile(f, p, c) == [q \in (DOMAIN f) \cup {p} |-> IF q = p THEN c ELSE f[q]]

DeleteFile(f, p) == [q \in (DOMAIN f) \ {p} |-> f[q]]

PutFile(f, p, c) == IF c = NoFile THEN DeleteFile(f, p) ELSE WriteFile(f, p, c)

\* The working directory holds both files: when it has been removed (the
\* case in which os.getcwd() raises) none of its files exists.
Visible(f, cwdPresent) == IF cwdPresent THEN f ELSE <<>>

\* Possible contents of the input document; NoFile: it does not exist.
InputChoices == {NoFile, "docA", "docB"}

\* Possible output file before the first run: none, or a stale one.
OutputChoices == {NoFile, <<"stale">>}

\* The PDF document the browser prints for a page under given options.
Render(doc, opts) ==
    [doc |-> doc, format |-> opts.format, margin |-> opts.margin,
     printBackground |-> opts.printBackground]

\* What awaiting page.goto(url, opts) yields for the state of the world.
GotoOutcome(f, url, idle, opts) ==
    IF ReadFile(f, UrlPath(url)) = NoFile THEN "NavigationError"
    ELSE IF idle THEN "ok"
    ELSE IF opts.timeout = "disabled" THEN "pending"
    ELSE "NavigationTimeoutError"

----------------------------------------------------------------------------
\* Control flow helpers

AtEnd == ip = Len(Program) + 1

\* The coroutine is about to execute statement s.
At(s) == phase = "ready" /\ ip <= Len(Program) /\ Program[ip] = s

\* The coroutine is suspended in `await` on operation s.
Awaiting(s) == phase = "waiting" /\ ip <= Len(Program) /\ Program[ip] = s /\ s \in inflight

\* Issue an awaited call: it is in flight until its result comes back.
Issue(s) ==
    /\ phase' = "waiting"
    /\ inflight' = inflight \cup {s}
    /\ callLog' = Append(callLog, s)
    /\ UNCHANGED ip

\* The awaited call returned: the coroutine resumes at the next statement.
Resume(s) ==
    /\ phase' = "ready"
    /\ ip' = ip + 1
    /\ inflight' = inflight \ {s}
    /\ done' = done \cup {s}
    /\ UNCHANGED <<failed, error>>

\* The statement raised: nothing catches it, the coroutine is abandoned.
Raise(s, err) ==
    /\ phase' = "raised"
    /\ inflight' = inflight \ {s}
    /\ failed' = failed \cup {s}
    /\ error' = err
    /\ UNCHANGED <<ip, done>>

----------------------------------------------------------------------------
Init ==
    /\ ip = 1
    /\ phase = "ready"
    /\ inflight = {}
    /\ browser = "none"
    /\ page = FALSE
    /\ file_url = NoUrl
    /\ cwdOk \in BOOLEAN
    /\ \E i \in InputChoices, o \in OutputChoices :
          /\ fs = Visible(PutFile(PutFile(<<>>, InputPath, i), OutputPath, o), cwdOk)
          /\ outAtStart = ReadFile(fs, OutputPath)
    /\ callLog = <<>>
    /\ done = {}
    /\ failed = {}
    /\ error = "none"
    /\ exitCode = -1
    /\ launches = 0
    /\ closes = 0
    /\ pdfRequests = {}
    /\ pdfWritten = FALSE
    /\ netIdle \in BOOLEAN
    /\ run = 1
    /\ prev = [exit |-> -1, in |-> NoFile, out |-> NoFile]

\* browser = await launch()
CallLaunch ==
    /\ At("launch")
    /\ Issue("launch")
    /\ UNCHANGED <<browser, page, file_url, fs, done, failed, error, exitCode,
                   launches, closes, pdfRequests, pdfWritten, cwdOk, netIdle,
                   run, prev, outAtStart>>

RetLaunchOk ==
    /\ Awaiting("launch")
    /\ Resume("launch")
    /\ browser' = "open"
    /\ launches' = launches + 1
    /\ UNCHANGED <<page, file_url, fs, callLog, exitCode, closes, pdfRequests,
                   pdfWritten, cwdOk, netIdle, run, prev, outAtStart>>

\* The exception is swallowed and the launch is attempted again.
RetLaunchFail_Retry ==
    /\ Awaiting("launch")
    /\ phase' = "ready"
    /\ inflight' = inflight \ {"launch"}
    /\ failed' = failed \cup {"launch"}
    /\ error' = "BrowserLaunchError"
    /\ UNCHANGED <<ip, done, browser, page, file_url, fs, callLog, exitCode,
                   launches, closes, pdfRequests, pdfWritten, cwdOk, netIdle,
                   run, prev, outAtStart>>

RetLaunchFail ==
    /\ Awaiting("launch")
    /\ Raise("launch", "BrowserLaunchError")
    /\ UNCHANGED <<browser, page, file_url, fs, callLog, exitCode, launches,
                   closes, pdfRequests, pdfWritten, cwdOk, netIdle, run, prev,
                   outAtStart>>

\* page = await browser.newPage()
CallNewPage ==
    /\ At("newPage")
    /\ Issue("newPage")
    /\ UNCHANGED <<browser, page, file_url, fs, done, failed, error, exitCode,
                   launches, closes, pdfRequests, pdfWritten, cwdOk, netIdle,
                   run, prev, outAtStart>>

RetNewPageOk ==
    /\ Awaiting("newPage")
    /\ Resume("newPage")
    /\ page' = TRUE
    /\ UNCHANGED <<browser, file_url, fs, callLog, exitCode, launches, closes,
                   pdfRequests, pdfWritten, cwdOk, netIdle, run, prev,
                   outAtStart>>

RetNewPageFail ==
    /\ Awaiting("newPage")
    /\ Raise("newPage", "PageError")
    /\ UNCHANGED <<browser, page, file_url, fs, callLog, exitCode, launches,
                   closes, pdfRequests, pdfWritten, cwdOk, netIdle, run, prev,
                   outAtStart>>

\* html_path = os.path.abspath('levenshtein.html'); file_url = f'file://{html_path}'
\* Synchronous: no await, so nothing is in flight.
ResolveOk ==
    /\ At("abspath")
    /\ cwdOk
    /\ file_url' = FileUrl(Abspath(Cwd, InputName))
    /\ callLog' = Append(callLog, "abspath")
    /\ done' = done \cup {"abspath"}
    /\ ip' = ip + 1
    /\ UNCHANGED <<phase, inflight, browser, page, fs, failed, error, exitCode,
                   launches, closes, pdfRequests, pdfWritten, cwdOk, netIdle,
                   run, prev, outAtStart>>

\* os.getcwd() raises when the working directory cannot be read.
ResolveFail ==
    /\ At("abspath")
    /\ ~cwdOk
    /\ callLog' = Append(callLog, "abspath")
    /\ phase' = "raised"
    /\ failed' = failed \cup {"abspath"}
    /\ error' = "PathResolutionError"
    /\ UNCHANGED <<ip, inflight, done, browser, page, file_url, fs, exitCode,
                   launches, closes, pdfRequests, pdfWritten, cwdOk, netIdle,
                   run, prev, outAtStart>>

\* await page.goto(file_url, {'waitUntil': 'networkidle0'})
CallGoto ==
    /\ At("goto")
    /\ Issue("goto")
    /\ UNCHANGED <<browser, page, file_url, fs, done, failed, error, exitCode,
                   launches, closes, pdfRequests, pdfWritten, cwdOk, netIdle,
                   run, prev, outAtStart>>

RetGotoOk ==
    /\ Awaiting("goto")
    /\ GotoOutcome(fs, file_url, netIdle, GotoOptions) = "ok"
    /\ Resume("goto")
    /\ UNCHANGED <<browser, page, file_url, fs, callLog, exitCode, launches,
                   closes, pdfRequests, pdfWritten, cwdOk, netIdle, run, prev,
                   outAtStart>>

\* The navigation error is caught and ignored; execution continues.
RetGotoFail_Swallow ==
    /\ Awaiting("goto")
    /\ GotoOutcome(fs, file_url, netIdle, GotoOptions) \notin {"ok", "pending"}
    /\ phase' = "ready"
    /\ ip' = ip + 1
    /\ inflight' = inflight \ {"goto"}
    /\ failed' = failed \cup {"goto"}
    /\ error' = GotoOutcome(fs, file_url, netIdle, GotoOptions)
    /\ UNCHANGED <<done, browser, page, file_url, fs, callLog, exitCode,
                   launches, closes, pdfRequests, pdfWritten, cwdOk, netIdle,
                   run, prev, outAtStart>>

RetGotoFail ==
    /\ Awaiting("goto")
    /\ GotoOutcome(fs, file_url, netIdle, GotoOptions) \notin {"ok", "pending"}
    /\ Raise("goto", GotoOutcome(fs, file_url, netIdle, GotoOptions))
    /\ UNCHANGED <<browser, page, file_url, fs, callLog, exitCode, launches,
                   closes, pdfRequests, pdfWritten, cwdOk, netIdle, run, prev,
                   outAtStart>>

\* await page.pdf({...})
CallPdf ==
    /\ At("pdf")
    /\ Issue("pdf")
    /\ pdfRequests' = pdfRequests \cup {PdfOptions}
    /\ UNCHANGED <<browser, page, file_url, fs, done, failed, error, exitCode,
                   launches, closes, pdfWritten, cwdOk, netIdle, run, prev,
                   outAtStart>>

\* The printed document is returned but no file is written.
RetPdfOk_NoWrite ==
    /\ Awaiting("pdf")
    /\ Resume("pdf")
    /\ UNCHANGED <<browser, page, file_url, fs, callLog, exitCode, launches,
                   closes, pdfRequests, pdfWritten, cwdOk, netIdle, run, prev,
                   outAtStart>>

\* The printed document is appended to what the file already holds.
RetPdfOk_Append ==
    /\ Awaiting("pdf")
    /\ Resume("pdf")
    /\ fs' = WriteFile(fs, Abspath(Cwd, PdfOptions.path),
                       (IF ReadFile(fs, Abspath(Cwd, PdfOptions.path)) = NoFile
                        THEN <<>> ELSE ReadFile(fs, Abspath(Cwd, PdfOptions.path)))
                       \o <<Render(ReadFile(fs, UrlPath(file_url)), PdfOptions)>>)
    /\ pdfWritten' = TRUE
    /\ UNCHANGED <<browser, page, file_url, callLog, exitCode, launches,
                   closes, pdfRequests, cwdOk, netIdle, run, prev, outAtStart>>

\* The file at 'path' is opened for writing (truncated) and holds the one
\* printed document.
RetPdfOk ==
    /\ Awaiting("pdf")
    /\ Resume("pdf")
    /\ fs' = WriteFile(fs, Abspath(Cwd, PdfOptions.path),
                       <<Render(ReadFile(fs, UrlPath(file_url)), PdfOptions)>>)
    /\ pdfWritten' = TRUE
    /\ UNCHANGED <<browser, page, file_url, callLog, exitCode, launches,
                   closes, pdfRequests, cwdOk, netIdle, run, prev, outAtStart>>

\* Export fails: before the file is opened (file untouched) or while it is
\* written (file left truncated).
RetPdfFail ==
    /\ Awaiting("pdf")
    /\ Raise("pdf", "ExportError")
    /\ \/ fs' = fs
       \/ fs' = WriteFile(fs, Abspath(Cwd, PdfOptions.path), <<>>)
    /\ UNCHANGED <<browser, page, file_url, callLog, exitCode, launches,
                   closes, pdfRequests, pdfWritten, cwdOk, netIdle, run, prev,
                   outAtStart>>

\* await browser.close()
CallClose ==
    /\ At("close")
    /\ Issue("close")
    /\ closes' = closes + 1
    /\ UNCHANGED <<browser, page, file_url, fs, done, failed, error, exitCode,
                   launches, pdfRequests, pdfWritten, cwdOk, netIdle, run,
                   prev, outAtStart>>

RetCloseOk ==
    /\ Awaiting("close")
    /\ Resume("close")
    /\ browser' = "closed"
    /\ page' = FALSE
    /\ UNCHANGED <<file_url, fs, callLog, exitCode, launches, closes,
                   pdfRequests, pdfWritten, cwdOk, netIdle, run, prev,
                   outAtStart>>

RetCloseFail ==
    /\ Awaiting("close")
    /\ Raise("close", "BrowserError")
    /\ UNCHANGED <<browser, page, file_url, fs, callLog, exitCode, launches,
                   closes, pdfRequests, pdfWritten, cwdOk, netIdle, run, prev,
                   outAtStart>>

\* run_until_complete returns: the coroutine ran off its end, exit status 0.
ExitSuccess ==
    /\ phase = "ready"
    /\ AtEnd
    /\ phase' = "exited"
    /\ exitCode' = 0
    /\ UNCHANGED <<ip, inflight, browser, page, file_url, fs, callLog, done,
                   failed, error, launches, closes, pdfRequests, pdfWritten,
                   cwdOk, netIdle, run, prev, outAtStart>>

\* run_until_complete re-raises the coroutine's exception: traceback, status 1.
ExitFailure ==
    /\ phase = "raised"
    /\ phase' = "exited"
    /\ exitCode' = 1
    /\ UNCHANGED <<ip, inflight, browser, page, file_url, fs, callLog, done,
                   failed, error, launches, closes, pdfRequests, pdfWritten,
                   cwdOk, netIdle, run, prev, outAtStart>>

\* The script is started again as a new process; between the runs the
\* environment may replace or remove the input document.
NextRun ==
    /\ phase = "exited"
    /\ run < MaxRuns
    /\ run' = run + 1
    /\ prev' = [exit |-> exitCode, in |-> ReadFile(fs, InputPath),
                out |-> ReadFile(fs, OutputPath)]
    /\ cwdOk' \in BOOLEAN
    /\ \E i \in InputChoices :
          /\ fs' = Visible(PutFile(fs, InputPath, i), cwdOk')
          /\ outAtStart' = ReadFile(fs', OutputPath)
    /\ netIdle' \in BOOLEAN
    /\ ip' = 1
    /\ phase' = "ready"
    /\ inflight' = {}
    /\ browser' = "none"
    /\ page' = FALSE
    /\ file_url' = NoUrl
    /\ callLog' = <<>>
    /\ done' = {}
    /\ failed' = {}
    /\ error' = "none"
    /\ exitCode' = -1
    /\ launches' = 0
    /\ closes' = 0
    /\ pdfWritten' = FALSE
    /\ UNCHANGED pdfRequests

\* One step of a run in progress.
RunStep ==
    \/ CallLaunch \/ RetLaunchOk \/ RetLaunchFail
    \/ CallNewPage \/ RetNewPageOk \/ RetNewPageFail
    \/ ResolveOk \/ ResolveFail
    \/ CallGoto \/ RetGotoOk \/ RetGotoFail
    \/ CallPdf \/ RetPdfOk \/ RetPdfFail
    \/ CallClose \/ RetCloseOk \/ RetCloseFail
    \/ ExitSuccess \/ ExitFailure

Next == RunStep \/ NextRun

Spec == Init /\ [][Next]_vars

\* The interpreter keeps executing the coroutine and every external
\* operation eventually returns a result or an error.
FairSpec == Spec /\ WF_vars(RunStep)

----------------------------------------------------------------------------
\* Properties

InputExists == ReadFile(fs, InputPath) # NoFile

Range(seq) == {seq[i] : i \in 1..Len(seq)}

IsBrowserOp(s) == s # "abspath"

BrowserOps == <<"launch", "newPage", "goto", "pdf", "close">>

BrowserCalls == SelectSeq(callLog, IsBrowserOp)

Count(seq, s) == Cardinality({i \in 1..Len(seq) : seq[i] = s})

Before(a, b) ==
    \A i, j \in 1..Len(callLog) : callLog[i] = a /\ callLog[j] = b => i < j

FatalSteps == {"abspath", "launch", "newPage", "goto", "pdf"}

\* C1: in every run in which launch() succeeded, browser.close() has been
\* invoked by the time the run has ended, whatever the exit path, the
\* failures of newPage, goto and pdf included.
C1_CloseOnEveryExitPath ==
    (phase = "exited" /\ "launch" \in done) => closes >= 1

\* C2: at the end of a run the number of browser.close() calls equals the
\* number of successful launch() calls; both are 1 when launch succeeded and
\* 0 when it failed, and the browser is never closed twice.
C2_ReleasedExactlyOnce ==
    phase = "exited" =>
        /\ closes = launches
        /\ launches = (IF "launch" \in done THEN 1 ELSE 0)
        /\ closes <= 1

\* C3: when the input file exists and every operation succeeded, the run
\* ends with exit code 0 and notebook.pdf holds the document page.pdf wrote;
\* exit code 0 is never reached without the PDF having been written.
C3_SuccessWritesPdf ==
    /\ (phase = "exited" /\ InputExists /\ failed = {}) =>
          /\ exitCode = 0
          /\ pdfWritten
          /\ ReadFile(fs, OutputPath) = <<Render(ReadFile(fs, InputPath), PdfOptions)>>
    /\ exitCode = 0 =>
          /\ pdfWritten
          /\ "pdf" \in done
          /\ ReadFile(fs, OutputPath) # NoFile
          /\ Len(ReadFile(fs, OutputPath)) > 0

C3_Witness ==
    /\ phase = "exited"
    /\ InputExists
    /\ failed = {}
    /\ exitCode = 0
    /\ pdfWritten

C5_FailureIsFatal ==
    /\ \A s \in FatalSteps : Count(callLog, s) <= 1
    /\ failed \cap FatalSteps # {} =>
          /\ Cardinality(failed) = 1
          /\ callLog[Len(callLog)] \in failed
          /\ inflight = {}
          /\ phase \in {"raised", "exited"}
          /\ exitCode # 0
          /\ phase = "exited" => exitCode = 1

C5_Witness ==
    /\ phase = "exited"
    /\ failed = {"pdf"}
    /\ exitCode = 1

\* C6: every PDF export request carries the same options, whatever the input
\* document: format A4, printBackground true, all four margins 1cm, path
\* notebook.pdf.
C6_FixedPdfOptions ==
    \A r \in pdfRequests :
        /\ DOMAIN r = {"path", "format", "printBackground", "margin"}
        /\ r.path = "notebook.pdf"
        /\ r.format = "A4"
        /\ r.printBackground = TRUE
        /\ DOMAIN r.margin = {"top", "right", "bottom", "left"}
        /\ \A side \in DOMAIN r.margin : r.margin[side] = "1cm"

C6_Witness ==
    /\ run = 2
    /\ prev.exit = 0
    /\ prev.in = "docA"
    /\ ReadFile(fs, InputPath) = "docB"
    /\ "pdf" \in done
    /\ Cardinality(pdfRequests) = 1

\* C7: after two consecutive successful runs on the same unchanged input
\* there is exactly one output file, and its content is the content the
\* first of the two runs left: one printed document, overwritten.
C7_RerunIdempotent ==
    (/\ phase = "exited"
     /\ exitCode = 0
     /\ prev.exit = 0
     /\ prev.in = ReadFile(fs, InputPath)) =>
        /\ ReadFile(fs, OutputPath) = prev.out
        /\ Len(ReadFile(fs, OutputPath)) = 1
        /\ (DOMAIN fs) \ {InputPath} = {OutputPath}

C7_Witness ==
    /\ phase = "exited"
    /\ run >= 2
    /\ exitCode = 0
    /\ prev.exit = 0
    /\ prev.in = ReadFile(fs, InputPath)
    /\ prev.out = <<Render("docB", PdfOptions)>>

\* C8: the browser operations of a run are issued in the order launch,
\* newPage, goto, pdf, close, each only after the previous one has completed
\* successfully; at most one is in flight; at most one browser is launched;
\* newPage, goto and pdf are in flight only on an open browser.
C8_SequentialOrder ==
    /\ Len(BrowserCalls) <= Len(BrowserOps)
    /\ \A i \in 1..Len(BrowserCalls) : BrowserCalls[i] = BrowserOps[i]
    /\ \A i \in 2..Len(BrowserCalls) : BrowserCalls[i-1] \in done
    /\ Cardinality(inflight) <= 1
    /\ launches <= 1
    /\ Count(callLog, "launch") <= 1
    /\ inflight \cap {"newPage", "goto", "pdf"} # {} => browser = "open"

C8_Witness ==
    /\ phase = "exited"
    /\ BrowserCalls = BrowserOps
    /\ browser = "closed"

\* C9 as stated: the path is resolved before the browser is launched, so a
\* run that fails at path resolution has launched no browser and leaves
\* none open.
C9_ResolveBeforeLaunch ==
    /\ Before("abspath", "launch")
    /\ "launch" \in Range(callLog) => "abspath" \in done
    /\ "abspath" \in failed => (launches = 0 /\ browser # "open")

\* C9 amended: the path is resolved after launch and newPage have completed
\* and before goto is issued, so a run that fails at path resolution has
\* launched exactly one browser and issues neither goto nor pdf.
C9_ResolveBeforeGoto ==
    /\ "abspath" \in Range(callLog) =>
          /\ {"launch", "newPage"} \subseteq done
          /\ Before("launch", "abspath")
          /\ Before("newPage", "abspath")
    /\ "goto" \in Range(callLog) => ("abspath" \in done /\ Before("abspath", "goto"))
    /\ "abspath" \in failed =>
          /\ launches = 1
          /\ "goto" \notin Range(callLog)
          /\ "pdf" \notin Range(callLog)

C9_Witness ==
    /\ phase = "exited"
    /\ "abspath" \in failed
    /\ error = "PathResolutionError"
    /\ launches = 1

\* C10: every run eventually ends, in success or in failure; a navigation
\* whose page never becomes network-idle ends in a timeout failure of goto
\* instead of blocking the run.
C10_Terminates ==
    /\ (phase # "exited") ~> (phase = "exited" /\ exitCode \in {0, 1})
    /\ ("goto" \in inflight /\ InputExists /\ ~netIdle) ~>
          (phase = "exited" /\ exitCode = 1 /\ error = "NavigationTimeoutError")

C10_Witness ==
    /\ phase = "exited"
    /\ exitCode = 1
    /\ failed = {"goto"}
    /\ error = "NavigationTimeoutError"

====
